---- MODULE Spec2Model ----
(***************************************************************************)
(* Model of the retail-store pricing-feed backend (src/main.py,            *)
(* src/celery_worker.py, src/models.py): the pricing_feeds table, the      *)
(* SQLAlchemy sessions the API handlers and the Celery task work through,  *)
(* the /tmp upload area, the broker queue and the HTTP handlers.           *)
(*                                                                         *)
(* Strings the code inspects character by character (sku, product_name)    *)
(* are tuples of one-character strings; prices are integers; a stored      *)
(* date is the tuple <<year, month, day>> (or PgInfinity); the text of a   *)
(* date or of a CSV price is a string, converted by DateParts / float.     *)
(***************************************************************************)
EXTENDS Integers, Sequences, FiniteSets, TLC

VARIABLES
    store,      \* committed rows of table pricing_feeds (a set of records)
    seq,        \* next value of the id sequence of pricing_feeds
    issued,     \* history: every id a committed row has ever carried
    sessions,   \* Session objects that are open (SessionLocal() .. close())
    apc,        \* API request: "idle", "open" (get_db yielded), "done"
    adb,        \* the Session get_db handed to the API request (0: none)
    adirty,     \* objects the API request's session holds modified, unflushed
    last,       \* the API request's handler and HTTP status
    req,        \* the request under study (SpecUpdate, SpecSearch)
    resp,       \* the body of the response to req (SpecSearch)
    store0,     \* the table as it was when req arrived (SpecUpdate)
    fs,         \* /tmp: file name -> contents of the file (a sequence of rows)
    queue,      \* broker queue of process_csv_file tasks [id, path, sent];
                \* sent (history): the rows the upload that got the id carried
    nextTask,   \* next task id the broker hands out
    wpc,        \* worker: "idle", "opened", "rows", "commit", "failed", "done"
    wdb,        \* the Session of the running task (0: none)
    wtask,      \* the running task [id, path]
    wrows,      \* the rows of the file the task has open
    wi,         \* number of rows of wrows the task has consumed
    wpending,   \* PricingFeed objects db.add()ed by the task, unflushed
    wcommitted  \* history: the rows the running task has inserted

vars == <<store, seq, issued, sessions, apc, adb, adirty, last, req, resp,
          store0, fs, queue, nextTask,
          wpc, wdb, wtask, wrows, wi, wpending, wcommitted>>

apiVars == <<apc, adb, adirty, last>>
studyVars == <<req, resp, store0>>
brokerVars == <<fs, queue, nextTask>>
workerVars == <<wpc, wdb, wtask, wrows, wi, wpending, wcommitted>>

----------------------------------------------------------------------------
(* Bounds of the model *)

MaxId == 2          \* ids the sequence hands out before the model stops creating
MaxJobs == 1        \* upload requests the model follows among the other requests
MaxTasks == 2       \* upload requests the model follows when only uploads are made
MaxBatch == 2       \* update requests in one bulk update
MaxRows == 2        \* rows of the table in the request studies
MaxPage == 2        \* page numbers tried by the list endpoints
MaxSize == 2        \* page sizes tried by the list endpoints

----------------------------------------------------------------------------
(* Values *)

Fields == {"store_id", "sku", "product_name", "price", "date"}

Ids(S) == {r.id : r \in S}

\* datetime.strptime / the DATE input routine split the text at "-".
\* <<>>: the text is not of the form Y-M-D.
DateParts(s) ==
    CASE s = "2024-01-05" -> <<2024, 1, 5>>
      [] s = "2024-03-01" -> <<2024, 3, 1>>
      [] s = "2024-02-30" -> <<2024, 2, 30>>
      [] s = "2023-02-29" -> <<2023, 2, 29>>
      [] OTHER -> <<>>

IsLeap(y) == (y % 4 = 0 /\ y % 100 # 0) \/ y % 400 = 0

DaysInMonth(y, m) ==
    IF m = 2 THEN (IF IsLeap(y) THEN 29 ELSE 28)
    ELSE IF m \in {4, 6, 9, 11} THEN 30 ELSE 31

\* A value of type date that names a day of the calendar.
IsCalendarDate(d) ==
    /\ Len(d) = 3
    /\ d[1] \in 1..9999
    /\ d[2] \in 1..12
    /\ d[3] \in 1..DaysInMonth(d[1], d[2])

\* The validators of the request models: datetime.strptime(value, "%Y-%m-%d")
\* raises ValueError unless the text is Y-M-D and names a day of the calendar.
validate_date(value) == IsCalendarDate(DateParts(value))

\* What the DATE column makes of the text an INSERT or UPDATE binds to it.
PgInfinity == <<"infinity">>
DataError == <<>>
DateColumn(s) ==
    IF s = "infinity" THEN PgInfinity
    ELSE IF IsCalendarDate(DateParts(s)) THEN DateParts(s)
    ELSE DataError

\* Python's float() on the text of a CSV cell; <<>>: ValueError.
float(s) ==
    CASE s = "1" -> <<1>>
      [] s = "2" -> <<2>>
      [] s = "3" -> <<3>>
      [] OTHER -> <<>>

----------------------------------------------------------------------------
(* Sessions and the table *)

Handles == {"s1", "s2"}

\* SessionLocal(): a new Session object, distinct from every live one.
SessionLocalShared(open) == "s1"
SessionLocal(open) == CHOOSE h \in Handles : h \notin open

\* db.close(): the session is released; what it held unflushed is dropped.
CloseLeak(open, h) == open
Close(open, h) == open \ {h}

\* The id a new row gets: the next value of the table's sequence.
NewIdMax(S, n) == IF S = {} THEN 1 ELSE (CHOOSE m \in Ids(S) : \A k \in Ids(S) : k <= m) + 1
NewId(S, n) == n

Row(id, o, d) ==
    [id |-> id, store_id |-> o.store_id, sku |-> o.sku,
     product_name |-> o.product_name, price |-> o.price, date |-> d]

\* The flush of a commit: INSERT the added objects in the order of db.add().
\* The DATE column rejects a text it cannot read and the transaction is
\* rolled back; values drawn from the sequence are not given back.
RECURSIVE InsertAll(_, _, _, _)
InsertAll(S, objs, n, acc) ==
    IF objs = <<>> THEN [ok |-> TRUE, rows |-> acc, seq |-> n]
    ELSE LET o == Head(objs)
             d == DateColumn(o.date)
             id == NewId(S \cup acc, n)
         IN IF d = DataError
            THEN [ok |-> FALSE, rows |-> {}, seq |-> n]
            ELSE InsertAll(S, Tail(objs), id + 1, acc \cup {Row(id, o, d)})

\* db.query(PricingFeed).filter(PricingFeed.id == id).first()
FirstById(S, id) ==
    IF \E r \in S : r.id = id THEN {CHOOSE r \in S : r.id = id} ELSE {}

\* for key, value in d.items(): setattr(obj, key, value), for d the
\* dict(exclude_unset=True) of the request: only the keys the request set.
\* (The text of a date becomes a date when the UPDATE binds it.)
SetAttrsUnset(obj, d) ==
    [f \in DOMAIN obj |->
        IF f \in DOMAIN d THEN (IF f = "date" THEN DateColumn(d[f]) ELSE d[f])
        ELSE CASE f = "store_id" -> ""
               [] f \in {"sku", "product_name"} -> <<>>
               [] f = "price" -> 0
               [] OTHER -> obj[f]]
SetAttrs(obj, d) ==
    [f \in DOMAIN obj |->
        IF f \in DOMAIN d THEN (IF f = "date" THEN DateColumn(d[f]) ELSE d[f])
        ELSE obj[f]]

\* The flush of modified objects: each UPDATE is keyed by the primary key the
\* object was loaded with.
FlushDirty(S, dirty) ==
    {r \in S : r.id \notin DOMAIN dirty} \cup {dirty[k] : k \in DOMAIN dirty \cap Ids(S)}

----------------------------------------------------------------------------
(* The request models *)

\* PricingFeedCreate: five required fields, date checked by validate_date.
PricingFeedCreateValid(feed) ==
    /\ DOMAIN feed = Fields
    /\ validate_date(feed.date)

\* PricingFeedUpdate: Optional[...] without a default, so each of the five
\* fields is required; date checked by validate_date.
PricingFeedUpdateValid(feed) ==
    /\ DOMAIN feed = Fields
    /\ validate_date(feed.date)

\* UpdateRequest: id required, the other fields default to None and are then
\* unset; a date that is set is checked by validate_date.
UpdateRequestValid(u) ==
    /\ "id" \in DOMAIN u
    /\ DOMAIN u \subseteq Fields \cup {"id"}
    /\ "date" \in DOMAIN u => validate_date(u.date)

NoReq == [op |-> "none"]
NoResp == [op |-> "none"]
NoLast == [op |-> "none", status |-> 0]

----------------------------------------------------------------------------
(* get_db and the handlers of src/main.py *)

\* get_db up to its yield: db = SessionLocal()
get_db_enter ==
    /\ apc = "idle"
    /\ adb' = SessionLocal(sessions)
    /\ sessions' = sessions \cup {adb'}
    /\ apc' = "open"
    /\ adirty' = <<>>
    /\ UNCHANGED <<store, seq, issued, last, studyVars, brokerVars, workerVars>>

\* get_db after its yield: "finally: db.close()", whatever the handler did.
get_db_no_finally(open, h, status) == IF status = 200 THEN Close(open, h) ELSE open
get_db_finally(open, h, status) == Close(open, h)

get_db_exit ==
    /\ apc = "done"
    /\ sessions' = get_db_finally(sessions, adb, last.status)
    /\ adb' = "none"
    /\ adirty' = <<>>
    /\ apc' = "idle"
    /\ last' = [op |-> "none", status |-> last.status]
    /\ UNCHANGED <<store, seq, issued, studyVars, brokerVars, workerVars>>

Responds(op, status) ==
    /\ apc = "open"
    /\ apc' = "done"
    /\ last' = [op |-> op, status |-> status]
    /\ UNCHANGED <<sessions, adb, workerVars, req, store0>>

create_pricing_feed(feed) ==
    /\ seq <= MaxId
    /\ IF ~PricingFeedCreateValid(feed)
       THEN Responds("create", 422) /\ UNCHANGED <<store, seq, issued>>
       ELSE LET r == InsertAll(store, <<feed>>, seq, {})
            IN /\ Responds("create", 200)
               /\ store' = store \cup r.rows
               /\ seq' = r.seq
               /\ issued' = issued \cup Ids(r.rows)
    /\ UNCHANGED <<adirty, resp, brokerVars>>

get_pricing_feed(feed_id) ==
    /\ Responds("get", IF FirstById(store, feed_id) = {} THEN 404 ELSE 200)
    /\ UNCHANGED <<store, seq, issued, adirty, resp, brokerVars>>

update_pricing_feed(feed_id, feed) ==
    /\ IF ~PricingFeedUpdateValid(feed)
       THEN Responds("update", 422) /\ UNCHANGED store
       ELSE LET found == FirstById(store, feed_id)
            IN IF found = {}
               THEN Responds("update", 404) /\ UNCHANGED store
               ELSE LET db_feed == SetAttrs(CHOOSE r \in found : TRUE, feed)
                    IN /\ Responds("update", 200)
                       /\ store' = FlushDirty(store, feed_id :> db_feed)
    /\ UNCHANGED <<seq, issued, adirty, resp, brokerVars>>

delete_pricing_feed(feed_id) ==
    /\ LET found == FirstById(store, feed_id)
       IN IF found = {}
          THEN Responds("delete", 404) /\ UNCHANGED store
          ELSE Responds("delete", 200) /\ store' = store \ found
    /\ UNCHANGED <<seq, issued, adirty, resp, brokerVars>>

\* The loop of bulk_update_pricing_feeds over the session's identity map:
\* dirty holds the objects modified so far, none of them flushed
\* (autoflush=False).
RECURSIVE BulkLoop(_, _, _)
BulkLoop(S, updates, dirty) ==
    IF updates = <<>> THEN [status |-> 200, dirty |-> dirty]
    ELSE LET u == Head(updates)
             found == FirstById(S, u.id)
         IN IF found = {}
            THEN [status |-> 404, dirty |-> dirty]
            ELSE LET db_feed == IF u.id \in DOMAIN dirty THEN dirty[u.id]
                                ELSE CHOOSE r \in found : TRUE
                 IN BulkLoop(S, Tail(updates),
                        [k \in DOMAIN dirty \cup {u.id} |->
                            IF k = u.id THEN SetAttrs(db_feed, u) ELSE dirty[k]])

\* The table after the handler: db.commit() is reached only when no id was
\* missing; raising HTTPException leaves the table as it was.
BulkTablePartial(S, r) == FlushDirty(S, r.dirty)
BulkTable(S, r) == IF r.status = 200 THEN FlushDirty(S, r.dirty) ELSE S

bulk_update_pricing_feeds(updates) ==
    /\ IF \E i \in 1..Len(updates) : ~UpdateRequestValid(updates[i])
       THEN Responds("bulk_update", 422) /\ UNCHANGED <<store, adirty>>
       ELSE LET r == BulkLoop(store, updates, <<>>)
            IN /\ Responds("bulk_update", r.status)
               /\ store' = BulkTable(store, r)
               /\ adirty' = IF r.status = 200 THEN <<>> ELSE r.dirty
    /\ UNCHANGED <<seq, issued, resp, brokerVars>>

----------------------------------------------------------------------------
(* search_records and get_pricing_feeds *)

\* str.lower() / SQL lower()
LowerChar(c) ==
    CASE c = "A" -> "a" [] c = "M" -> "m" [] c = "N" -> "n"
      [] c = "T" -> "t" [] c = "X" -> "x" [] OTHER -> c

Lower(t) == [i \in 1..Len(t) |-> LowerChar(t[i])]

\* text LIKE pattern: % stands for any run of characters, _ for any one.
RECURSIVE Like(_, _)
Like(t, p) ==
    IF p = <<>> THEN t = <<>>
    ELSE IF Head(p) = "%"
         THEN Like(t, Tail(p)) \/ (t # <<>> /\ Like(Tail(t), p))
         ELSE /\ t # <<>>
              /\ Head(p) = "_" \/ Head(p) = Head(t)
              /\ Like(Tail(t), Tail(p))

\* The order of the DATE type, infinity after every day.
DateNum(d) == d[1] * 10000 + d[2] * 100 + d[3]
DateLE(a, b) ==
    IF b = PgInfinity THEN TRUE
    ELSE IF a = PgInfinity THEN FALSE
    ELSE DateNum(a) <= DateNum(b)

\* Python's truth of an Optional[str] field: set and not empty.
Given(search, k) == k \in DOMAIN search
TruthyStr(search, k) == Given(search, k) /\ search[k] # ""
TruthyText(search, k) == Given(search, k) /\ search[k] # <<>>

\* SearchRequest: both validators are named validate_date, so the class keeps
\* the second one only: search_date_to is checked, search_date_from is not.
SearchRequestValid(search) ==
    Given(search, "search_date_to") => validate_date(search.search_date_to)

\* The DATE comparison fails on a text the column type cannot read.
SearchDatesReadable(search) ==
    /\ TruthyStr(search, "search_date_from")
          => DateColumn(search.search_date_from) # DataError
    /\ (TruthyStr(search, "search_date_from") /\ TruthyStr(search, "search_date_to"))
          => DateColumn(search.search_date_to) # DataError

\* The filters search_records adds to the query, row by row.
Matches(r, search) ==
    /\ TruthyStr(search, "store_id") => r.store_id = search.store_id
    /\ TruthyText(search, "search_sku")
          => Like(Lower(r.sku), <<"%">> \o Lower(search.search_sku) \o <<"%">>)
    /\ TruthyText(search, "search_product_name")
          => Like(Lower(r.product_name),
                  <<"%">> \o Lower(search.search_product_name) \o <<"%">>)
    /\ IF Given(search, "search_price_from") /\ Given(search, "search_price_to")
       THEN search.search_price_from <= r.price /\ r.price <= search.search_price_to
       ELSE Given(search, "search_price_from") => r.price >= search.search_price_from
    /\ IF TruthyStr(search, "search_date_from") /\ TruthyStr(search, "search_date_to")
       THEN /\ DateLE(DateColumn(search.search_date_from), r.date)
            /\ DateLE(r.date, DateColumn(search.search_date_to))
       ELSE TruthyStr(search, "search_date_from")
               => DateLE(DateColumn(search.search_date_from), r.date)

\* query.order_by(PricingFeed.id)
RECURSIVE OrderById(_)
OrderById(S) ==
    IF S = {} THEN <<>>
    ELSE LET r == CHOOSE x \in S : \A y \in S : x.id <= y.id
         IN <<r>> \o OrderById(S \ {r})

\* skip = (page - 1) * size
SkipOffByOne(page, size) == page * size
Skip(page, size) == (page - 1) * size

\* query.offset(skip).limit(size).all()
OffsetLimit(rows, skip, size) ==
    SubSeq(rows, skip + 1, IF skip + size < Len(rows) THEN skip + size ELSE Len(rows))

\* (total_count // size) + (1 if total_count % size > 0 else 0)
TotalPagesPlusOne(total_count, size) == (total_count \div size) + 1
TotalPages(total_count, size) ==
    (total_count \div size) + (IF total_count % size > 0 THEN 1 ELSE 0)

\* The envelope both list endpoints return for the rows their query matches.
Envelope(op, matched, page, size) ==
    LET total_count == Cardinality(matched)
        feeds == OffsetLimit(OrderById(matched), Skip(page, size), size)
    IN [op |-> op, total_count |-> total_count, page |-> page, size |-> size,
        total_pages |-> TotalPages(total_count, size), results |-> feeds]

SearchEnvelope(S, search, page, size) ==
    Envelope("search", {r \in S : Matches(r, search)}, page, size)

search_records(search, page, size) ==
    /\ IF ~SearchRequestValid(search) \/ page < 1 \/ size < 1
       THEN Responds("search", 422) /\ UNCHANGED resp
       ELSE IF ~SearchDatesReadable(search)
       THEN Responds("search", 500) /\ UNCHANGED resp
       ELSE /\ Responds("search", 200)
            /\ resp' = SearchEnvelope(store, search, page, size)
    /\ UNCHANGED <<store, seq, issued, adirty, brokerVars>>

\* get_pricing_feeds: the same envelope, filtered by store_id only.
ListMatches(r, search) ==
    TruthyStr(search, "store_id") => r.store_id = search.store_id

ListEnvelope(S, search, page, size) ==
    Envelope("list", {r \in S : ListMatches(r, search)}, page, size)

get_pricing_feeds(search, page, size) ==
    /\ IF page < 1 \/ size < 1
       THEN Responds("list", 422) /\ UNCHANGED resp
       ELSE /\ Responds("list", 200)
            /\ resp' = ListEnvelope(store, search, page, size)
    /\ UNCHANGED <<store, seq, issued, adirty, brokerVars>>

----------------------------------------------------------------------------
(* upload_csv, the broker and process_csv_file (src/celery_worker.py) *)

Columns == {"Store ID", "SKU", "Product Name", "Price", "Date"}

NoFile == [exists |-> FALSE, rows |-> <<>>]
NoTask == [id |-> 0, path |-> "", sent |-> <<>>]

\* file_location = f"/tmp/{file.filename}"
FileLocation(filename) == filename

\* upload_csv: write the upload to file_location, then
\* process_csv_file.delay(file_location); the task id is the response.
upload_csv(filename, rows) ==
    /\ Responds("upload", 200)
    /\ LET file_location == FileLocation(filename)
       IN /\ fs' = [fs EXCEPT ![file_location] = [exists |-> TRUE, rows |-> rows]]
          /\ queue' = Append(queue, [id |-> nextTask, path |-> file_location,
                                     sent |-> rows])
    /\ nextTask' = nextTask + 1
    /\ UNCHANGED <<store, seq, issued, adirty, resp>>

\* Something outside the program removes a file from /tmp.
TmpRemoved ==
    /\ \E path \in DOMAIN fs :
          /\ fs[path].exists
          /\ fs' = [fs EXCEPT ![path] = NoFile]
    /\ UNCHANGED <<store, seq, issued, sessions, apiVars, studyVars,
                   queue, nextTask, workerVars>>

\* The worker takes a task off the queue: db = SessionLocal()
process_csv_file_start ==
    /\ wpc = "idle"
    /\ queue # <<>>
    /\ wtask' = Head(queue)
    /\ queue' = Tail(queue)
    /\ wdb' = SessionLocal(sessions)
    /\ sessions' = sessions \cup {wdb'}
    /\ wpc' = "started"
    /\ UNCHANGED <<store, seq, issued, apiVars, studyVars, fs, nextTask,
                   wrows, wi, wpending, wcommitted>>

\* with open(file_path, "r") as f: reader = csv.DictReader(f)
process_csv_file_open ==
    /\ wpc = "started"
    /\ IF fs[wtask.path].exists
       THEN wrows' = fs[wtask.path].rows /\ wpc' = "rows"
       ELSE wrows' = <<>> /\ wpc' = "failed"
    /\ UNCHANGED <<store, seq, issued, sessions, apiVars, studyVars,
                   brokerVars, wdb, wtask, wi, wpending, wcommitted>>

\* The rows of the table after db.add(record) in the loop: none, the record
\* waits in the session for the commit.
AddedCommitEach(S, n, record) == InsertAll(S, <<record>>, n, {})
Added(S, n, record) == [ok |-> TRUE, rows |-> {}, seq |-> n]

\* One turn of "for row in reader": a KeyError (no such column) or a
\* ValueError (float) leaves the loop and the try block.
process_csv_file_row ==
    /\ wpc = "rows"
    /\ wi < Len(wrows)
    /\ LET row == wrows[wi + 1]
       IN IF Columns \subseteq DOMAIN row /\ float(row["Price"]) # <<>>
          THEN LET record == [store_id |-> row["Store ID"], sku |-> row["SKU"],
                              product_name |-> row["Product Name"],
                              price |-> float(row["Price"])[1],
                              date |-> row["Date"]]
                   a == Added(store, seq, record)
               IN /\ wpending' = IF a.rows = {} THEN Append(wpending, record)
                                 ELSE wpending
                  /\ store' = store \cup a.rows
                  /\ seq' = a.seq
                  /\ issued' = issued \cup Ids(a.rows)
                  /\ wcommitted' = wcommitted \cup a.rows
                  /\ wi' = wi + 1
                  /\ wpc' = "rows"
          ELSE /\ wpc' = "failed"
               /\ UNCHANGED <<wpending, wi, store, seq, issued, wcommitted>>
    /\ UNCHANGED <<sessions, apiVars, studyVars, brokerVars, wdb, wtask, wrows>>

\* db.commit() after the last row: one transaction for the whole file.
process_csv_file_commit ==
    /\ wpc = "rows"
    /\ wi = Len(wrows)
    /\ LET r == InsertAll(store, wpending, seq, {})
       IN /\ store' = store \cup r.rows
          /\ seq' = r.seq
          /\ issued' = issued \cup Ids(r.rows)
          /\ wcommitted' = wcommitted \cup r.rows
          /\ wpc' = IF r.ok THEN "done" ELSE "failed"
          /\ wpending' = IF r.ok THEN <<>> ELSE wpending
    /\ UNCHANGED <<sessions, apiVars, studyVars, brokerVars, wdb, wtask,
                   wrows, wi>>

\* finally: db.close()
process_csv_file_finally ==
    /\ wpc \in {"done", "failed"}
    /\ sessions' = Close(sessions, wdb)
    /\ wdb' = "none"
    /\ wpending' = <<>>
    /\ wtask' = NoTask
    /\ wrows' = <<>>
    /\ wi' = 0
    /\ wcommitted' = {}
    /\ wpc' = "idle"
    /\ UNCHANGED <<store, seq, issued, apiVars, studyVars, brokerVars>>

----------------------------------------------------------------------------
(* Files the uploads carry *)

CsvRow(store_id, sku, name, price, date) ==
    [c \in Columns |->
        CASE c = "Store ID" -> store_id
          [] c = "SKU" -> sku
          [] c = "Product Name" -> name
          [] c = "Price" -> price
          [] c = "Date" -> date]

SkuAb == <<"A", "b">>
SkuXb == <<"x", "b">>
NameTea == <<"t", "e", "a">>
NameMilk == <<"M", "i">>

RowTea == CsvRow("S1", SkuAb, NameTea, "2", "2024-01-05")
RowMilk == CsvRow("S2", SkuXb, NameMilk, "1", "2024-03-01")
RowBadPrice == CsvRow("S1", SkuAb, NameTea, "abc", "2024-01-05")
RowBadDate == CsvRow("S1", SkuAb, NameTea, "2", "2024-02-30")
RowInfinity == CsvRow("S1", SkuAb, NameTea, "2", "infinity")
\* A row of a file whose header has no Price column.
RowNoPrice == [c \in Columns \ {"Price"} |-> RowTea[c]]

----------------------------------------------------------------------------
(* The system: API requests and ingestion tasks over one table *)

\* Request bodies and uploads the clients of the system send.
CreateBodies ==
    [store_id : {"S1"}, sku : {SkuAb}, product_name : {NameTea}, price : {2},
     date : {"2024-01-05", "2024-02-30", "infinity"}]

PutBodies ==
    [store_id : {"S2"}, sku : {SkuXb}, product_name : {NameMilk}, price : {1},
     date : {"2024-03-01", "2023-02-29"}]

BulkItems ==
    {[id |-> i, price |-> 1, date |-> "2024-03-01"] : i \in 1..MaxId + 1}
    \cup {[id |-> 1, date |-> "2023-02-29"]}

SeqsUpTo(S, n) == UNION {[1..k -> S] : k \in 0..n}

Uploads == {<<RowTea, RowInfinity>>, <<RowTea, RowBadDate>>, <<RowBadPrice>>}

\* The sequence of a table that holds the rows S is past their ids.
SeqAfter(S) == IF S = {} THEN 1 ELSE 1 + CHOOSE m \in Ids(S) : \A k \in Ids(S) : k <= m

InitWith(names, S, r) ==
    /\ store = S
    /\ seq = SeqAfter(S)
    /\ issued = Ids(S)
    /\ sessions = {}
    /\ apc = "idle"
    /\ adb = "none"
    /\ adirty = <<>>
    /\ last = NoLast
    /\ req = r
    /\ resp = NoResp
    /\ store0 = S
    /\ fs = [n \in names |-> NoFile]
    /\ queue = <<>>
    /\ nextTask = 1
    /\ wpc = "idle"
    /\ wdb = "none"
    /\ wtask = NoTask
    /\ wrows = <<>>
    /\ wi = 0
    /\ wpending = <<>>
    /\ wcommitted = {}

Init == InitWith({FileLocation("a.csv")}, {}, NoReq)

\* A request once get_db has yielded: FastAPI calls the handler.
Handler ==
    \/ \E feed \in CreateBodies : create_pricing_feed(feed)
    \/ \E id \in 1..MaxId + 1 : get_pricing_feed(id)
    \/ \E id \in 1..MaxId + 1, feed \in PutBodies : update_pricing_feed(id, feed)
    \/ \E id \in 1..MaxId + 1 : delete_pricing_feed(id)
    \/ \E updates \in SeqsUpTo(BulkItems, MaxBatch) : bulk_update_pricing_feeds(updates)
    \/ \E rows \in Uploads : nextTask <= MaxJobs /\ upload_csv("a.csv", rows)

\* A task the worker has taken runs to its end.
Task ==
    \/ process_csv_file_open
    \/ process_csv_file_row
    \/ process_csv_file_commit
    \/ process_csv_file_finally

Next ==
    \/ get_db_enter
    \/ Handler
    \/ get_db_exit
    \/ TmpRemoved
    \/ seq <= MaxId /\ process_csv_file_start
    \/ Task

Spec == Init /\ [][Next]_vars

\* FastAPI runs a handler it has entered to its return or its exception and
\* then resumes get_db; Celery runs a task it has started to its end.
FairSpec ==
    Spec /\ WF_vars(Handler) /\ WF_vars(get_db_exit) /\ WF_vars(Task)

----------------------------------------------------------------------------
(* Uploads and ingestion alone, over two file names *)

Files == {<<RowTea, RowMilk>>, <<RowMilk>>, <<RowTea, RowBadPrice>>,
          <<RowTea, RowBadDate>>, <<RowInfinity>>, <<RowNoPrice>>}

FileNames == {"a.csv", "b.csv"}

InitIngest == InitWith({FileLocation(n) : n \in FileNames}, {}, NoReq)

NextIngest ==
    \/ get_db_enter
    \/ \E n \in FileNames, rows \in Files : nextTask <= MaxTasks /\ upload_csv(n, rows)
    \/ get_db_exit
    \/ TmpRemoved
    \/ process_csv_file_start
    \/ Task

SpecIngest == InitIngest /\ [][NextIngest]_vars

----------------------------------------------------------------------------
(* One update or bulk update request against a table that holds rows *)

RecTea ==
    [store_id |-> "S1", sku |-> SkuAb, product_name |-> NameTea, price |-> 2,
     date |-> <<2024, 1, 5>>]
RecMilk ==
    [store_id |-> "S2", sku |-> SkuXb, product_name |-> NameMilk, price |-> 1,
     date |-> <<2024, 3, 1>>]

\* The tables of at most MaxRows rows with ids 1..MaxRows.
TablesOf(recs) ==
    UNION {{{Row(i, f[i], f[i].date) : i \in D} : f \in [D -> recs]} :
              D \in SUBSET (1..MaxRows)}

NewA ==
    [store_id |-> "S3", sku |-> <<"n">>, product_name |-> <<"N">>, price |-> 3,
     date |-> "2024-03-01"]
NewB ==
    [store_id |-> "S4", sku |-> SkuXb, product_name |-> <<"N">>, price |-> 1,
     date |-> "2024-01-05"]

\* The keys a request set, with their values.
Dict(full, S) == [f \in S |-> full[f]]

PutFeeds ==
    {NewA, Dict(NewA, {"price"}), [NewA EXCEPT !.date = "2024-02-30"]}

BulkDicts ==
    {Dict(NewA, {"price"}), Dict(NewA, {"store_id", "date"}),
     Dict(NewB, {"price", "sku"}), Dict([NewA EXCEPT !.date = "2024-02-30"], {"date"})}

UpdateItem(i, d) == [f \in DOMAIN d \cup {"id"} |-> IF f = "id" THEN i ELSE d[f]]

BulkBatches ==
    SeqsUpTo({UpdateItem(i, d) : i \in 1..MaxRows + 1, d \in BulkDicts}, MaxBatch)

InitUpdate ==
    \E S \in TablesOf({RecTea, RecMilk}) :
        \/ \E i \in 1..MaxRows + 1, feed \in PutFeeds :
              InitWith({FileLocation("a.csv")}, S,
                       [op |-> "update", id |-> i, feed |-> feed, updates |-> <<>>])
        \/ \E updates \in BulkBatches :
              InitWith({FileLocation("a.csv")}, S,
                       [op |-> "bulk_update", id |-> 0, feed |-> <<>>, updates |-> updates])

NextUpdate ==
    \/ last = NoLast /\ get_db_enter
    \/ req.op = "update" /\ update_pricing_feed(req.id, req.feed)
    \/ req.op = "bulk_update" /\ bulk_update_pricing_feeds(req.updates)
    \/ get_db_exit

SpecUpdate == InitUpdate /\ [][NextUpdate]_vars

\* The value of the table column a request's value stands for.
Supplied(f, v) == IF f = "date" THEN DateParts(v) ELSE v

\* C1: bulk update is all-or-nothing. Once the handler has run on a batch
\* that names an id the table did not hold, the table is as it was when the
\* request arrived (also after the session is closed), the rows named before
\* the missing id included, and the response is 404.
C1_BulkAllOrNothing ==
    (/\ req.op = "bulk_update"
     /\ last.status # 0
     /\ \E i \in 1..Len(req.updates) : req.updates[i].id \notin Ids(store0))
    => /\ store = store0
       /\ last.status \in {404, 422}
       /\ (\A i \in 1..Len(req.updates) : UpdateRequestValid(req.updates[i]))
              => last.status = 404

\* C1 witness: the request is over with 404, its first update named a row
\* of the table and it set a value the row did not have.
C1_Witness ==
    /\ req.op = "bulk_update"
    /\ apc = "idle"
    /\ last.status = 404
    /\ Len(req.updates) >= 2
    /\ \E r \in store0 :
          /\ r.id = req.updates[1].id
          /\ "price" \in DOMAIN req.updates[1]
          /\ r.price # req.updates[1].price

\* The updates of a batch that name row id and set field f.
Setting(updates, id, f) ==
    {i \in 1..Len(updates) : updates[i].id = id /\ f \in DOMAIN updates[i]}

Latest(I) == CHOOSE i \in I : \A j \in I : j <= i

\* C6: a partial update changes only the fields the request set. After a
\* successful PUT or bulk update every row of the table is still there, once;
\* a field the request set for the row has the value the request gave (the
\* last one, when a batch sets it more than once), and every other field of
\* every row has the value it had.
C6_PartialUpdate ==
    last.status = 200 =>
        /\ Ids(store) = Ids(store0)
        /\ Cardinality(store) = Cardinality(store0)
        /\ \A r0 \in store0 : \E r \in store :
              /\ r.id = r0.id
              /\ \A f \in Fields :
                    r[f] =
                      IF req.op = "update"
                      THEN (IF r0.id = req.id /\ f \in DOMAIN req.feed
                            THEN Supplied(f, req.feed[f]) ELSE r0[f])
                      ELSE (IF Setting(req.updates, r0.id, f) # {}
                            THEN Supplied(f, req.updates[Latest(Setting(req.updates, r0.id, f))][f])
                            ELSE r0[f])

\* C6 witness: a bulk update succeeded, it changed a row through an update
\* that set some fields and left price unset, and another row is untouched.
C6_Witness ==
    /\ req.op = "bulk_update"
    /\ last.status = 200
    /\ store # store0
    /\ store \cap store0 # {}
    /\ \E i \in 1..Len(req.updates) :
          /\ "price" \notin DOMAIN req.updates[i]
          /\ "store_id" \in DOMAIN req.updates[i]

----------------------------------------------------------------------------
(* One search or list request against a table that holds rows *)

SearchFull ==
    [store_id : {"S1", "S2"}, search_sku : {<<"a">>, <<"_">>},
     search_product_name : {<<"T">>}, search_price_from : {1},
     search_price_to : {1}, search_date_from : {"2024-03-01"},
     search_date_to : {"2024-03-01"}]

SearchKeys ==
    {"store_id", "search_sku", "search_product_name", "search_price_from",
     "search_price_to", "search_date_from", "search_date_to"}

SearchBodies == {Dict(full, K) : full \in SearchFull, K \in SUBSET SearchKeys}

ListQueries == {Dict(full, K) : full \in SearchFull, K \in SUBSET {"store_id"}}

InitSearch ==
    \E S \in TablesOf({RecTea, RecMilk}), page \in 1..MaxPage, size \in 1..MaxSize :
        \/ \E search \in SearchBodies :
              InitWith({FileLocation("a.csv")}, S,
                       [op |-> "search", search |-> search, page |-> page, size |-> size])
        \/ \E search \in ListQueries :
              InitWith({FileLocation("a.csv")}, S,
                       [op |-> "list", search |-> search, page |-> page, size |-> size])

NextSearch ==
    \/ last = NoLast /\ get_db_enter
    \/ req.op = "search" /\ search_records(req.search, req.page, req.size)
    \/ req.op = "list" /\ get_pricing_feeds(req.search, req.page, req.size)
    \/ get_db_exit

SpecSearch == InitSearch /\ [][NextSearch]_vars

\* s occurs in t as a run of consecutive characters.
Contains(t, s) ==
    \E i \in 0..Len(t) - Len(s) : SubSeq(t, i + 1, i + Len(s)) = s

\* The predicates a search body supplies, as the contract states them.
Satisfies(r, search) ==
    /\ Given(search, "store_id") => r.store_id = search.store_id
    /\ Given(search, "search_sku") => Contains(Lower(r.sku), Lower(search.search_sku))
    /\ Given(search, "search_product_name")
          => Contains(Lower(r.product_name), Lower(search.search_product_name))
    /\ Given(search, "search_price_from") => r.price >= search.search_price_from
    /\ Given(search, "search_price_to") => r.price <= search.search_price_to
    /\ Given(search, "search_date_from")
          => DateLE(DateParts(search.search_date_from), r.date)
    /\ Given(search, "search_date_to")
          => DateLE(r.date, DateParts(search.search_date_to))

\* C3: total_count of search_records is the number of rows that satisfy
\* every predicate the body supplies.
C3_CountsSatisfying ==
    resp.op = "search" =>
        resp.total_count = Cardinality({r \in store : Satisfies(r, req.search)})

\* The rows the query of the request selects, and the envelope of a page.
Selected ==
    IF req.op = "search" THEN {r \in store : Matches(r, req.search)}
    ELSE {r \in store : ListMatches(r, req.search)}

PageOf(p) ==
    IF req.op = "search" THEN SearchEnvelope(store, req.search, p, req.size)
    ELSE ListEnvelope(store, req.search, p, req.size)

\* C4: total_pages is the least number of pages of the given size that hold
\* total_count rows, and a page past the last one is empty and reports the
\* total_count and total_pages page 1 reports.
C4_TotalPagesCeil ==
    resp.op # "none" =>
        /\ resp.total_pages >= 0
        /\ resp.total_pages * resp.size >= resp.total_count
        /\ resp.total_pages > 0 => (resp.total_pages - 1) * resp.size < resp.total_count
        /\ resp.page > resp.total_pages =>
              /\ resp.results = <<>>
              /\ resp.total_count = PageOf(1).total_count
              /\ resp.total_pages = PageOf(1).total_pages

\* C4 witness: a page past the last one of a result that is not empty and
\* fills its pages exactly.
C4_Witness ==
    /\ resp.op = "search"
    /\ resp.total_count > 0
    /\ resp.total_count % resp.size = 0
    /\ resp.page > resp.total_pages

Rank(r, S) == Cardinality({x \in S : x.id <= r.id})

\* C5: a page holds exactly the selected rows at positions
\* (page-1)*size+1 .. page*size in ascending order of id: at most size rows,
\* ascending, and each selected row is on exactly one of the pages
\* 1..total_pages.
C5_PagesOrderedById ==
    resp.op # "none" =>
        LET res == resp.results
            first == (resp.page - 1) * resp.size
        IN /\ Len(res) <= resp.size
           /\ \A i \in 1..Len(res) - 1 : res[i].id < res[i + 1].id
           /\ \A i \in 1..Len(res) :
                 res[i] \in Selected /\ Rank(res[i], Selected) = first + i
           /\ \A r \in Selected :
                 Rank(r, Selected) \in first + 1..first + resp.size
                    => \E i \in 1..Len(res) : res[i] = r
           /\ \A r \in Selected :
                 Cardinality({pi \in (1..resp.total_pages) \X (1..resp.size) :
                                 /\ pi[2] <= Len(PageOf(pi[1]).results)
                                 /\ PageOf(pi[1]).results[pi[2]] = r}) = 1

\* C5 witness: the second page of a filtered search whose result has two
\* pages holds a row.
C5_Witness ==
    /\ resp.op = "search"
    /\ DOMAIN req.search # {}
    /\ resp.total_pages >= 2
    /\ resp.page = 2
    /\ Len(resp.results) >= 1

----------------------------------------------------------------------------
(* Properties of ingestion *)

\* The record of the table a CSV row stands for.
IsRowOf(r, row) ==
    /\ Columns \subseteq DOMAIN row
    /\ float(row["Price"]) # <<>>
    /\ r.store_id = row["Store ID"]
    /\ r.sku = row["SKU"]
    /\ r.product_name = row["Product Name"]
    /\ r.price = float(row["Price"])[1]
    /\ r.date = DateColumn(row["Date"])

PriceUnreadable(rows) ==
    \E i \in 1..Len(rows) :
        "Price" \in DOMAIN rows[i] /\ float(rows[i]["Price"]) = <<>>

\* C2: CSV ingestion is all-or-nothing. At every state of a task the rows it
\* has inserted into the table are none or all the rows of its file; a task
\* that failed (file not opened, price not a number) has inserted none, and a
\* task whose file holds a price that is not a number never succeeds.
C2_IngestAllOrNothing ==
    /\ wcommitted \subseteq store
    /\ wcommitted = {} \/ Cardinality(wcommitted) = Len(wrows)
    /\ wpc = "failed" => wcommitted = {}
    /\ wpc \in {"started", "rows"} => wcommitted = {}
    /\ (wpc \in {"rows", "done", "failed"} /\ PriceUnreadable(wrows))
          => wpc # "done" /\ wcommitted = {}

\* C2 witness: the task has failed at a price that is not a number, after a
\* valid row of the same file was added to its session.
C2_Witness ==
    /\ wpc = "failed"
    /\ PriceUnreadable(wrows)
    /\ wi >= 1
    /\ Len(wpending) >= 1
    /\ wcommitted = {}

\* C10: the rows a task commits are the rows of the file that the upload
\* which got the task's id carried.
C10_TaskCommitsItsUpload ==
    wpc = "done" =>
        /\ Cardinality(wcommitted) = Len(wtask.sent)
        /\ \A r \in wcommitted : \E i \in 1..Len(wtask.sent) : IsRowOf(r, wtask.sent[i])

----------------------------------------------------------------------------
(* Properties of the table and the sessions *)

\* C7: ids are unique, immutable and never reused. In every step: no two
\* rows share an id, an id that appears in the table has never been carried
\* by a row before, and an update or bulk update leaves the set of ids as
\* it was.
C7_IdsUniqueNeverReused ==
    [][/\ \A r1, r2 \in store' : r1.id = r2.id => r1 = r2
       /\ \A r \in store' : r.id \notin Ids(store) => r.id \notin issued
       /\ (apc = "open" /\ last'.op \in {"update", "bulk_update"})
             => Ids(store') = Ids(store)
       /\ Ids(store') \subseteq issued']_vars

\* C7 witness: a row was deleted, a later row was created, and an update has
\* just been applied.
C7_Witness ==
    /\ \E i \in issued : i \notin Ids(store) /\ \E r \in store : r.id > i
    /\ last.op \in {"update", "bulk_update"}
    /\ last.status = 200

\* C8: every row of the table has a date that is a day of the calendar.
C8_DatesAreCalendarDates == \A r \in store : IsCalendarDate(r.date)

SessionsOwned ==
    /\ sessions = {adb, wdb} \ {"none"}
    /\ apc = "idle" <=> adb = "none"
    /\ wpc = "idle" <=> wdb = "none"
    /\ adb # "none" => adb # wdb

\* C9: every request and every task works through a session of its own,
\* open only while the request or task runs, and every session that is open
\* is eventually closed, whatever the handler or the task did.
C9_SessionsClosed ==
    /\ []SessionsOwned
    /\ \A h \in Handles : (h \in sessions) ~> (h \notin sessions)

\* C9 witness: a handler has raised 404 while a task that failed still
\* holds its own session.
C9_Witness ==
    /\ apc = "done"
    /\ last.status = 404
    /\ wpc = "failed"
    /\ adb \in sessions
    /\ wdb \in sessions

====
